---------------------------- MODULE Spec2Model ----------------------------
(***************************************************************************)
(* Model of src/actions/cause-actions.ts: the six server actions over the  *)
(* "causes" table (getCause, createCause, updateCause, listCauses,         *)
(* countCauses, updateCauseStatus), the store client they call and the     *)
(* revalidatePath signals they emit.                                       *)
(*                                                                         *)
(* Every action is an async function: it builds one statement (reading the *)
(* clock first when it stamps updated_at), awaits the store, and goes on   *)
(* with the store's answer.  The store applies a statement atomically, but *)
(* other calls run while a call awaits, so a call is three steps here:     *)
(* the call is made, the store answers, the call finishes.  One call is    *)
(* followed through its steps and to its result; the calls of other        *)
(* clients are made and reach the store at any time around and between     *)
(* these steps, each in two steps of its own: it builds its statement      *)
(* (reading the clock), and later the store applies that statement.        *)
(*                                                                         *)
(* JavaScript values.  Plain strings (title, status, ids, paths) are TLA+  *)
(* strings; null and undefined are the sentinel strings NULL and           *)
(* UNDEFINED, which no input equals.  A value whose JavaScript type        *)
(* matters (the goal: number or string) is a tagged record:                *)
(*   [type |-> "number", kind |-> "finite", neg, bits, exp]                *)
(*        the double (-1)^neg * bits * 2^exp, bits being the binary digits *)
(*        of an odd integer below 2^53, most significant first (no digits  *)
(*        and exp = 0 for zero)                                            *)
(*   [type |-> "number", kind |-> "inf", neg]     Infinity and -Infinity   *)
(*   [type |-> "number", kind |-> "nan"]          NaN                      *)
(*   [type |-> "string", s]     the string with characters s; a character  *)
(*        is a one-character string, or the name "U+XXXX" of its code      *)
(*        point when TLA+ has no way to write it                           *)
(*   [type |-> "number", kind |-> "integer", n]   the integer n, in the    *)
(*        count of an answer                                               *)
(*   [type |-> "null"]          null, where a tagged value is expected     *)
(* An object is a function from its keys; a key that is absent is not in   *)
(* the DOMAIN.                                                             *)
(***************************************************************************)
EXTENDS Integers, Sequences, FiniteSets, TLC

VARIABLES
    causes,     \* the causes table: the sequence of its rows, in insertion order
    now,        \* the clock read by new Date() and by the store's defaults
    call,       \* the call followed: its operation and arguments ([op |-> "none"]
                \* between calls)
    phase,      \* where it is: "idle", "sent" (awaiting the store), "answered"
                \* (the store has answered, the call has not gone on yet), "done"
    statement,  \* the statement it sent to the store
    response,   \* the store's answer to it: {data, error} or {count, error}
    result,     \* its outcome: [kind |-> "return", value], [kind |-> "null"] or
                \* [kind |-> "throw", error]; [kind |-> "pending"] until it is done
    trace,      \* what happened during the call, in order: its statement reaching
                \* the store, the writes of other calls, its logs and signals
    others      \* the calls of other clients that await the store: each with the
                \* statement it built

vars == <<causes, now, call, phase, statement, response, result, trace, others>>

-----------------------------------------------------------------------------
(* Bounds *)

MaxCauses == 2
MaxClock == 3
MaxOthers == 1

-----------------------------------------------------------------------------
(* JavaScript values *)

NULL == "<null>"
UNDEFINED == "<undefined>"

NaN == [type |-> "number", kind |-> "nan"]
Infinity(neg) == [type |-> "number", kind |-> "inf", neg |-> neg]
Finite(neg, bits, exp) ==
    [type |-> "number", kind |-> "finite", neg |-> neg, bits |-> bits, exp |-> exp]
Str(s) == [type |-> "string", s |-> s]
Null == [type |-> "null"]
\* the count of an answer: the integer n
Integer(n) == [type |-> "number", kind |-> "integer", n |-> n]

typeof(v) == IF v.type = "null" THEN "object" ELSE v.type

EmptyObject == [k \in {} |-> NULL]

\* obj.key, undefined when the key is absent
Get(obj, key) == IF key \in DOMAIN obj THEN obj[key] ELSE UNDEFINED

\* the truthiness of a string-or-null-or-undefined value
Truthy(v) == v \notin {UNDEFINED, NULL, ""}

\* { ...a, ...b }: the keys of both, b's value where both have the key
Spread(a, b) == b @@ a

-----------------------------------------------------------------------------
(* Numbers: IEEE 754 doubles.  A decimal literal is a sequence of decimal   *)
(* digits (integers 0..9) before and after the point; its value is the     *)
(* double nearest to it, ties to the even one.                             *)

MantissaBits == 53
MaxBinaryExponent == 1023
MinBinaryExponent == -1074
\* 10^309 is above every double; a literal below 10^-324 is nearer 0 than the
\* smallest double
MaxDecimalOrder == 309
MinDecimalOrder == -323

AllZero(ds) == \A i \in 1..Len(ds) : ds[i] = 0

StripLeading(ds) ==
    IF AllZero(ds) THEN <<>>
    ELSE SubSeq(ds, CHOOSE i \in 1..Len(ds) : ds[i] # 0 /\ \A j \in 1..(i - 1) : ds[j] = 0,
                Len(ds))

StripTrailing(ds) ==
    IF AllZero(ds) THEN <<>>
    ELSE SubSeq(ds, 1, CHOOSE i \in 1..Len(ds) :
                           ds[i] # 0 /\ \A j \in (i + 1)..Len(ds) : ds[j] = 0)

Zeros(n) == [i \in 1..n |-> 0]

\* the digits of half the integer with digits ds (rounded down)
Halve(ds) ==
    [i \in 1..Len(ds) |-> ((IF i > 1 THEN 10 * (ds[i - 1] % 2) ELSE 0) + ds[i]) \div 2]

\* the digits after the point of twice the fraction with digits ds
Twice(ds) ==
    [i \in 1..Len(ds) |->
        (2 * ds[i] + (IF i < Len(ds) /\ ds[i + 1] >= 5 THEN 1 ELSE 0)) % 10]

\* one more binary digit of an integer, from its low end
HalveStep(st) ==
    IF st.ds = <<>> THEN st
    ELSE [ds |-> StripLeading(Halve(st.ds)), bits |-> <<st.ds[Len(st.ds)] % 2>> \o st.bits]

\* n steps.  (Here and below an intermediate value is bound through a one-element
\* set, {f(x) : x \in {v}}, so that it is computed once.)
RECURSIVE HalveTimes(_, _)
HalveTimes(st, n) ==
    IF n = 0 THEN st
    ELSE IF n = 1 THEN HalveStep(st)
    ELSE CHOOSE r \in {HalveTimes(half, n - n \div 2) :
                           half \in {HalveTimes(st, n \div 2)}} : TRUE

\* the binary digits of the integer with decimal digits ds (none for zero)
IntegerBits(ds) == HalveTimes([ds |-> ds, bits |-> <<>>], 4 * Len(ds)).bits

\* one more binary digit of a fraction, after the k found so far; no more are
\* needed once the digits of the mantissa and the one after them are there, or the
\* place below the smallest double is reached
TwiceStep(st) ==
    IF st.rest = <<>> \/ st.k = 1 - MinBinaryExponent
       \/ Len(StripLeading(st.bits)) > MantissaBits
    THEN st
    ELSE [bits |-> Append(st.bits, IF st.rest[1] >= 5 THEN 1 ELSE 0), k |-> st.k + 1,
          rest |-> StripTrailing(Twice(st.rest))]

RECURSIVE TwiceTimes(_, _)
TwiceTimes(st, n) ==
    IF n = 0 THEN st
    ELSE IF n = 1 THEN TwiceStep(st)
    ELSE CHOOSE r \in {TwiceTimes(half, n - n \div 2) :
                           half \in {TwiceTimes(st, n \div 2)}} : TRUE

\* bits, followed by as many binary digits of the fraction with digits fs as the
\* rounding needs
FractionBits(bits, fs) ==
    LET most == 4 * (Len(fs) - Len(StripLeading(fs)) + 1) + MantissaBits + 1
        n == IF bits # <<>> THEN MantissaBits + 1
             ELSE IF most > 1 - MinBinaryExponent THEN 1 - MinBinaryExponent ELSE most
    IN  TwiceTimes([bits |-> bits, k |-> 0, rest |-> fs], n)

\* bits + 1
Increment(bits) ==
    IF \A i \in 1..Len(bits) : bits[i] = 1
    THEN <<1>> \o Zeros(Len(bits))
    ELSE LET j == CHOOSE i \in 1..Len(bits) :
                      bits[i] = 0 /\ \A l \in (i + 1)..Len(bits) : bits[l] = 1
         IN  [i \in 1..Len(bits) |-> IF i < j THEN bits[i] ELSE IF i = j THEN 1 ELSE 0]

\* the double nearest to the number with binary digits S, the last k of them after
\* the point, and more below them when inexact: round to nearest, ties to even
Rounded(neg, S, k, inexact) ==
    LET L == Len(S)
        below == IF -k < MinBinaryExponent THEN MinBinaryExponent + k ELSE 0
        room == IF L - below < MantissaBits THEN L - below ELSE MantissaBits
        keep == IF room < 0 THEN 0 ELSE room
        guard == keep < L /\ S[keep + 1] = 1
        sticky == inexact \/ \E i \in (keep + 2)..L : S[i] = 1
        up == guard /\ (sticky \/ (keep > 0 /\ S[keep] = 1))
        e == L - keep - k
    IN  CHOOSE r \in
            {IF StripTrailing(m) = <<>> THEN Finite(neg, <<>>, 0)
             ELSE IF e + Len(m) - 1 > MaxBinaryExponent THEN Infinity(neg)
             ELSE Finite(neg, StripTrailing(m), e + Len(m) - Len(StripTrailing(m))) :
                m \in {IF up THEN Increment(SubSeq(S, 1, keep)) ELSE SubSeq(S, 1, keep)}} : TRUE

\* the double nearest to the decimal I.F, with the sign neg
ToDouble(neg, I, F) ==
    CHOOSE r \in
        {Rounded(neg, StripLeading(ext.bits), ext.k, ext.rest # <<>>) :
            ext \in {FractionBits(ib, StripTrailing(F)) :
                        ib \in {IntegerBits(StripLeading(I))}}} : TRUE

\* the double nearest to I.F * 10^e
Scaled(neg, I0, F0, e) ==
    LET I == StripLeading(I0)
        F == StripTrailing(F0)
        all == I \o F
        z == CHOOSE i \in 1..Len(all) : all[i] # 0 /\ \A j \in 1..(i - 1) : all[j] = 0
        order == Len(I) - z + 1 + e
    IN  IF all = <<>> THEN Finite(neg, <<>>, 0)
        ELSE IF order > MaxDecimalOrder THEN Infinity(neg)
        ELSE IF order < MinDecimalOrder THEN Finite(neg, <<>>, 0)
        ELSE IF e >= 0
        THEN ToDouble(neg, I \o [i \in 1..e |-> IF i <= Len(F) THEN F[i] ELSE 0],
                      IF e >= Len(F) THEN <<>> ELSE SubSeq(F, e + 1, Len(F)))
        ELSE ToDouble(neg, IF -e >= Len(I) THEN <<>> ELSE SubSeq(I, 1, Len(I) + e),
                      (IF -e > Len(I) THEN Zeros(-e - Len(I)) \o I
                       ELSE SubSeq(I, Len(I) + e + 1, Len(I))) \o F)

\* the number literal I.F of the source
Num(I, F) == ToDouble(FALSE, I, F)

Digits == <<"0", "1", "2", "3", "4", "5", "6", "7", "8", "9">>
IsDigit(c) == \E i \in 1..10 : Digits[i] = c
DigitVal(c) == (CHOOSE i \in 1..10 : Digits[i] = c) - 1

\* StrWhiteSpaceChar: white space and line terminators
WhiteSpace ==
    {" ", "\t", "\n", "\r", "\f", "U+000B", "U+00A0", "U+FEFF", "U+2028", "U+2029",
     "U+1680", "U+2000", "U+2001", "U+2002", "U+2003", "U+2004", "U+2005", "U+2006",
     "U+2007", "U+2008", "U+2009", "U+200A", "U+202F", "U+205F", "U+3000"}

InfinityLiteral == <<"I", "n", "f", "i", "n", "i", "t", "y">>

\* the first index at or after i of s that holds no white space
SkipWhite(s, i) ==
    CHOOSE j \in i..(Len(s) + 1) :
        /\ j = Len(s) + 1 \/ s[j] \notin WhiteSpace
        /\ \A k \in i..(j - 1) : s[k] \in WhiteSpace

\* the first index at or after i of s that holds no digit
DigitsEnd(s, i) ==
    CHOOSE j \in i..(Len(s) + 1) :
        /\ j = Len(s) + 1 \/ ~IsDigit(s[j])
        /\ \A k \in i..(j - 1) : IsDigit(s[k])

\* the digits s[i..j-1]
DigitsOf(s, i, j) == [k \in 1..(j - i) |-> DigitVal(s[i + k - 1])]

\* the value of the digits ds after the digits that gave acc
RECURSIVE DigitsValue(_, _)
DigitsValue(ds, acc) ==
    IF ds = <<>> THEN acc ELSE DigitsValue(Tail(ds), acc * 10 + Head(ds))

\* the number of decimal digits of n
RECURSIVE DecimalLength(_)
DecimalLength(n) == IF n < 10 THEN 1 ELSE 1 + DecimalLength(n \div 10)

\* the digits ds, the first of them not 0, say n or more
AtLeast(ds, n) ==
    \/ Len(ds) > DecimalLength(n)
    \/ Len(ds) = DecimalLength(n) /\ DigitsValue(ds, 0) >= n

\* parseFloat drops every digit after the decimal point
parseFloatTruncating(s) ==
    LET a == SkipWhite(s, 1)
        neg == a <= Len(s) /\ s[a] = "-"
        b == IF a <= Len(s) /\ s[a] \in {"+", "-"} THEN a + 1 ELSE a
        c == DigitsEnd(s, b)
    IN  IF c = b THEN NaN ELSE ToDouble(neg, DigitsOf(s, b, c), <<>>)

\* Number.parseFloat on the characters s: leading white space is skipped, then
\* the longest prefix that is a decimal literal (sign, then Infinity or digits,
\* fraction and exponent) is the value; NaN when there is none
parseFloat(s) ==
    LET a == SkipWhite(s, 1)
        neg == a <= Len(s) /\ s[a] = "-"
        b == IF a <= Len(s) /\ s[a] \in {"+", "-"} THEN a + 1 ELSE a
        c == DigitsEnd(s, b)
        hasDot == c <= Len(s) /\ s[c] = "."
        f == IF hasDot THEN DigitsEnd(s, c + 1) ELSE c
        I == DigitsOf(s, b, c)
        F == IF hasDot THEN DigitsOf(s, c + 1, f) ELSE <<>>
        hasE == f <= Len(s) /\ s[f] \in {"e", "E"}
        expNeg == hasE /\ f + 1 <= Len(s) /\ s[f + 1] = "-"
        g == IF hasE /\ f + 1 <= Len(s) /\ s[f + 1] \in {"+", "-"} THEN f + 2 ELSE f + 1
        h == IF hasE THEN DigitsEnd(s, g) ELSE g
        E == IF hasE /\ h > g THEN StripLeading(DigitsOf(s, g, h)) ELSE <<>>
        \* an exponent this far from 0 takes the literal, whatever its digits and
        \* its point, above every double or below the smallest one
        far == Len(I) + Len(F) + MaxDecimalOrder - MinDecimalOrder
    IN  IF b + 7 <= Len(s) /\ SubSeq(s, b, b + 7) = InfinityLiteral THEN Infinity(neg)
        ELSE IF I = <<>> /\ F = <<>> THEN NaN
        ELSE IF AllZero(I \o F) THEN Finite(neg, <<>>, 0)
        ELSE IF AtLeast(E, far)
        THEN (IF expNeg THEN Finite(neg, <<>>, 0) ELSE Infinity(neg))
        ELSE Scaled(neg, I, F, IF expNeg THEN -DigitsValue(E, 0) ELSE DigitsValue(E, 0))

\* JSON.stringify of a number in the body of a statement: NaN and the infinities
\* go as null, and zero goes without its sign
JsonNumber(v) ==
    IF v.type # "number" THEN v
    ELSE IF v.kind \in {"nan", "inf"} THEN Null
    ELSE IF v.bits = <<>> THEN Finite(FALSE, <<>>, 0)
    ELSE v

\* the body of a statement as it reaches the store
JsonBody(values) ==
    [k \in DOMAIN values |-> IF k = "goal" THEN JsonNumber(values[k]) ELSE values[k]]

-----------------------------------------------------------------------------
(* The store client: supabase.from("causes") and the statements built on it. *)
(* A statement is applied atomically and answers {data, error}; a failed     *)
(* statement changes nothing.  fault is the failure the store reports for    *)
(* reasons of its own, NULL for none.  Each answers [table, response,        *)
(* applied, clock]: the table and the clock after it, and whether it wrote.  *)

NoError == [code |-> NULL, message |-> NULL]
NoRowError == [code |-> "PGRST116", message |-> "JSON object requested, multiple (or no) rows returned"]
FaultError(fault) == [code |-> fault, message |-> "store failure"]

\* the identifier the store generates for its n-th row
IdOf(n) == "c" \o ToString(n)

\* .eq(column, value) for every column of eqs
Matches(row, eqs) == \A k \in DOMAIN eqs : row[k] = eqs[k]

SelectRows(table, eqs) == SelectSeq(table, LAMBDA row : Matches(row, eqs))

\* .order("created_at", { ascending: false })
RECURSIVE OrderByCreatedDesc(_)
OrderByCreatedDesc(rows) ==
    IF rows = <<>> THEN <<>>
    ELSE LET i == CHOOSE j \in 1..Len(rows) :
                      \A k \in 1..Len(rows) :
                          \/ rows[k].created_at < rows[j].created_at
                          \/ (rows[k].created_at = rows[j].created_at /\ j <= k)
             rest == [k \in 1..(Len(rows) - 1) |-> IF k < i THEN rows[k] ELSE rows[k + 1]]
         IN  <<rows[i]>> \o OrderByCreatedDesc(rest)

\* the rows offset+1 .. offset+limit of rows (all of them after offset when there is no limit)
Page(rows, query) ==
    LET from == IF "offset" \in DOMAIN query THEN query.offset ELSE 0
        to   == IF "limit" \in DOMAIN query
                THEN (IF from + query.limit < Len(rows) THEN from + query.limit ELSE Len(rows))
                ELSE Len(rows)
    IN  IF from >= to THEN <<>> ELSE SubSeq(rows, from + 1, to)

\* the embedded rows of the select of getCause: profiles:user_id(full_name) and
\* auth_users:user_id(email).  A user without the related row embeds null, here the
\* object with no keys: ?.full_name reads undefined from either.
Profiles(userId) == IF userId = "u1" THEN [full_name |-> "Ann"] ELSE EmptyObject
AuthUsers(userId) == IF userId = "u1" THEN [email |-> "ann@example.org"] ELSE [email |-> NULL]

Failure(table, clock, error) ==
    [table |-> table, response |-> [data |-> EmptyObject, error |-> error],
     applied |-> FALSE, clock |-> clock]

\* .insert(values).select().single(): the store stamps the new row with its clock
InsertSingle(table, values, clock, fault) ==
    IF fault # NULL THEN Failure(table, clock, FaultError(fault))
    ELSE LET defaults == [id |-> IdOf(Len(table) + 1), rejection_reason |-> NULL,
                          created_at |-> clock, updated_at |-> clock]
             row == Spread(defaults, JsonBody(values))
         IN  [table |-> Append(table, row), response |-> [data |-> row, error |-> NoError],
              applied |-> TRUE, clock |-> clock + 1]

\* .update(values).eq(...).select().single(): the statement fails, and updates
\* nothing, unless exactly one row matches
UpdateSingle(table, values, eqs, clock, fault) ==
    LET hit == {i \in 1..Len(table) : Matches(table[i], eqs)}
    IN  IF fault # NULL THEN Failure(table, clock, FaultError(fault))
        ELSE IF Cardinality(hit) # 1 THEN Failure(table, clock, NoRowError)
        ELSE LET i == CHOOSE j \in hit : TRUE
                 row == Spread(table[i], JsonBody(values))
             IN  [table |-> [table EXCEPT ![i] = row],
                  response |-> [data |-> row, error |-> NoError],
                  applied |-> TRUE, clock |-> clock]

\* .select(`*, profiles:user_id(full_name), auth_users:user_id(email)`).eq(...).single()
SelectSingle(table, eqs, clock, fault) ==
    LET rows == SelectRows(table, eqs)
    IN  IF fault # NULL THEN Failure(table, clock, FaultError(fault))
        ELSE IF Len(rows) # 1 THEN Failure(table, clock, NoRowError)
        ELSE [table |-> table,
              response |-> [data |-> Spread(rows[1], [profiles |-> Profiles(rows[1].user_id),
                                                      auth_users |-> AuthUsers(rows[1].user_id)]),
                            error |-> NoError],
              applied |-> FALSE, clock |-> clock]

\* await query, for a select("*") query
SelectMany(table, query, clock, fault) ==
    [table |-> table,
     response |-> IF fault # NULL THEN [data |-> <<>>, error |-> FaultError(fault)]
                  ELSE [data |-> Page(OrderByCreatedDesc(SelectRows(table, query.eqs)), query),
                        error |-> NoError],
     applied |-> FALSE, clock |-> clock]

\* await query, for a select("id", { count: "exact", head: true }) query
SelectCount(table, query, clock, fault) ==
    [table |-> table,
     response |-> IF fault # NULL THEN [count |-> Null, error |-> FaultError(fault)]
                  ELSE [count |-> Integer(Len(SelectRows(table, query.eqs))),
                        error |-> NoError],
     applied |-> FALSE, clock |-> clock]

\* the store applies the statement st
Store(table, st, clock, fault) ==
    CASE st.verb = "insert" -> InsertSingle(table, st.values, clock, fault)
      [] st.verb = "update" -> UpdateSingle(table, st.values, st.eqs, clock, fault)
      [] st.verb = "single" -> SelectSingle(table, st.eqs, clock, fault)
      [] st.verb = "select" -> SelectMany(table, st, clock, fault)
      [] st.verb = "count" -> SelectCount(table, st, clock, fault)

-----------------------------------------------------------------------------
(* What a call does: its result and the events on the way *)

Return(value) == [kind |-> "return", value |-> value]
ReturnNull == [kind |-> "null"]
Throw(error) == [kind |-> "throw", error |-> error]

StoreEv(verb, applied) == [ev |-> "store", verb |-> verb, applied |-> applied]
OtherEv(c) == [ev |-> "other", call |-> c]
LogEv(message, error) == [ev |-> "console.error", message |-> message, error |-> error]
RevalidateEv(path) == [ev |-> "revalidatePath", path |-> path]

DefaultPageSize == 10

-----------------------------------------------------------------------------
(* The six actions.  Each is two pieces of code around its await on the     *)
(* store: the statement it builds (t is the clock it read, where it reads   *)
(* it), and what it does with the answer resp: [result, events].            *)

getCauseStatement(causeId) == [verb |-> "single", eqs |-> [id |-> causeId]]

\* any store error is taken for "no row"
getCauseNotFoundAnyError(error) == TRUE

\* error.code === "PGRST116"
getCauseNotFound(error) == error.code = "PGRST116"

getCauseAnswer(resp) ==
    LET data == resp.data
        name == IF Truthy(Get(data.profiles, "full_name"))
                THEN data.profiles.full_name ELSE "Anonymous"
        email == IF Truthy(Get(data.auth_users, "email"))
                 THEN data.auth_users.email ELSE ""
        cause == Spread(data, [user |-> [name |-> name, email |-> email]])
        flat == [k \in DOMAIN cause \ {"profiles", "auth_users"} |-> cause[k]]
    IN  IF resp.error # NoError
        THEN IF getCauseNotFound(resp.error)
             THEN [result |-> ReturnNull, events |-> <<>>]
             ELSE [result |-> Throw(resp.error),
                   events |-> <<LogEv("Error fetching cause:", resp.error)>>]
        ELSE [result |-> Return(flat), events |-> <<>>]

\* the status of the form is stored when it carries one
createCauseStatusFromInput(causeData) ==
    IF "status" \in DOMAIN causeData THEN causeData.status ELSE "pending"

\* status: "pending", whatever the form carries
createCauseStatus(causeData) == "pending"

createCauseStatement(userId, causeData) ==
    [verb |-> "insert",
     values |-> [user_id |-> userId,
                 title |-> causeData.title,
                 description |-> causeData.description,
                 category |-> causeData.category,
                 goal |-> IF typeof(causeData.goal) = "string"
                          THEN parseFloat(causeData.goal.s) ELSE causeData.goal,
                 status |-> createCauseStatus(causeData)]]

createCauseAnswer(resp) ==
    IF resp.error # NoError
    THEN [result |-> Throw(resp.error),
          events |-> <<LogEv("Error creating cause:", resp.error)>>]
    ELSE [result |-> Return(resp.data), events |-> <<RevalidateEv("/dashboard/causes")>>]

\* the update is scoped to the identifier alone
updateCauseFilterIdOnly(causeId, userId) == [id |-> causeId]

\* .eq("id", causeId).eq("user_id", userId)
updateCauseFilter(causeId, userId) == [id |-> causeId, user_id |-> userId]

updateCauseStatement(t, causeId, userId, causeData) ==
    LET spread == Spread(causeData, [updated_at |-> t])
        updateData == IF "goal" \in DOMAIN spread /\ typeof(spread.goal) = "string"
                      THEN [spread EXCEPT !.goal = parseFloat(spread.goal.s)]
                      ELSE spread
    IN  [verb |-> "update", values |-> updateData, eqs |-> updateCauseFilter(causeId, userId)]

updateCauseAnswer(causeId, resp) ==
    IF resp.error # NoError
    THEN [result |-> Throw(resp.error),
          events |-> <<LogEv("Error updating cause:", resp.error)>>]
    ELSE [result |-> Return(resp.data),
          events |-> <<RevalidateEv("/dashboard/causes/" \o causeId),
                       RevalidateEv("/dashboard/causes")>>]

\* no default: without a status option, causes of every status are listed
listCausesStatusFilterNoDefault(options) ==
    IF Truthy(Get(options, "status")) THEN [status |-> options.status] ELSE EmptyObject

\* the default applies whenever there is no status option, userId or not
listCausesStatusFilterAlwaysDefault(options) ==
    IF Truthy(Get(options, "status")) THEN [status |-> options.status]
    ELSE [status |-> "approved"]

\* the status option, or else approved when there is no userId option either
listCausesStatusFilter(options) ==
    IF Truthy(Get(options, "status"))
    THEN [status |-> options.status]
    ELSE IF ~Truthy(Get(options, "userId"))
         THEN [status |-> "approved"] ELSE EmptyObject

\* the query listCauses builds from its options
listCausesStatement(options) ==
    LET category == IF Truthy(Get(options, "category")) /\ options.category # "all"
                    THEN [category |-> options.category] ELSE EmptyObject
        status == listCausesStatusFilter(options)
        user == IF Truthy(Get(options, "userId"))
                THEN [user_id |-> options.userId] ELSE EmptyObject
        hasLimit == "limit" \in DOMAIN options /\ options.limit # 0
        hasOffset == "offset" \in DOMAIN options /\ options.offset # 0
        limit == IF hasLimit THEN [limit |-> options.limit] ELSE EmptyObject
        range == IF hasOffset
                 THEN [offset |-> options.offset,
                       limit |-> (options.offset
                                  + (IF hasLimit THEN options.limit ELSE DefaultPageSize) - 1)
                                 - options.offset + 1]
                 ELSE EmptyObject
    IN  Spread(Spread([verb |-> "select", eqs |-> Spread(Spread(category, status), user)],
                      limit), range)

listCausesAnswer(resp) ==
    IF resp.error # NoError
    THEN [result |-> Throw(resp.error),
          events |-> <<LogEv("Error listing causes:", resp.error)>>]
    ELSE [result |-> Return(resp.data), events |-> <<>>]

\* no default: without a status option, causes of every status are counted
countCausesStatusFilterNoDefault(options) ==
    IF Truthy(Get(options, "status")) THEN [status |-> options.status] ELSE EmptyObject

\* the status option, or else approved when there is no userId option either
countCausesStatusFilter(options) ==
    IF Truthy(Get(options, "status"))
    THEN [status |-> options.status]
    ELSE IF ~Truthy(Get(options, "userId"))
         THEN [status |-> "approved"] ELSE EmptyObject

\* the query countCauses builds from its options
countCausesStatement(options) ==
    LET category == IF Truthy(Get(options, "category")) /\ options.category # "all"
                    THEN [category |-> options.category] ELSE EmptyObject
        status == countCausesStatusFilter(options)
        user == IF Truthy(Get(options, "userId"))
                THEN [user_id |-> options.userId] ELSE EmptyObject
    IN  [verb |-> "count", eqs |-> Spread(Spread(category, status), user)]

countCausesAnswer(resp) ==
    IF resp.error # NoError
    THEN [result |-> Throw(resp.error),
          events |-> <<LogEv("Error counting causes:", resp.error)>>]
    ELSE [result |-> Return(IF resp.count = Null \/ resp.count.n = 0   \* count || 0
                            THEN 0 ELSE resp.count.n),
          events |-> <<>>]

updateCauseStatusStatement(t, causeId, status, rejectionReason) ==
    LET base == [status |-> status, updated_at |-> t]
        updateData == IF status = "rejected" /\ Truthy(rejectionReason)
                      THEN Spread(base, [rejection_reason |-> rejectionReason])
                      ELSE base
    IN  [verb |-> "update", values |-> updateData, eqs |-> [id |-> causeId]]

\* the signal is sent before the error is looked at
updateCauseStatusAnswerSignalsFirst(resp) ==
    IF resp.error # NoError
    THEN [result |-> Throw(resp.error),
          events |-> <<RevalidateEv("/dashboard/admin/causes"),
                       LogEv("Error updating cause status:", resp.error)>>]
    ELSE [result |-> Return(resp.data),
          events |-> <<RevalidateEv("/dashboard/admin/causes")>>]

updateCauseStatusAnswer(resp) ==
    IF resp.error # NoError
    THEN [result |-> Throw(resp.error),
          events |-> <<LogEv("Error updating cause status:", resp.error)>>]
    ELSE [result |-> Return(resp.data),
          events |-> <<RevalidateEv("/dashboard/admin/causes")>>]

\* the statement of the call c, which read the clock t if it reads it
Statement(c, t) ==
    CASE c.op = "getCause" -> getCauseStatement(c.causeId)
      [] c.op = "createCause" -> createCauseStatement(c.userId, c.causeData)
      [] c.op = "updateCause" -> updateCauseStatement(t, c.causeId, c.userId, c.causeData)
      [] c.op = "listCauses" -> listCausesStatement(c.options)
      [] c.op = "countCauses" -> countCausesStatement(c.options)
      [] c.op = "updateCauseStatus" ->
             updateCauseStatusStatement(t, c.causeId, c.status, c.rejectionReason)

\* what the call c does with the store's answer
Answer(c, resp) ==
    CASE c.op = "getCause" -> getCauseAnswer(resp)
      [] c.op = "createCause" -> createCauseAnswer(resp)
      [] c.op = "updateCause" -> updateCauseAnswer(c.causeId, resp)
      [] c.op = "listCauses" -> listCausesAnswer(resp)
      [] c.op = "countCauses" -> countCausesAnswer(resp)
      [] c.op = "updateCauseStatus" -> updateCauseStatusAnswer(resp)

\* new Date() is evaluated by updateCause and updateCauseStatus
ReadsClock(c) == c.op \in {"updateCause", "updateCauseStatus"}

\* a call on the table as it is, with no other call in between
getCause(table, causeId, fault) ==
    getCauseAnswer(SelectSingle(table, getCauseStatement(causeId).eqs, 0, fault).response).result
listCauses(table, options, fault) ==
    listCausesAnswer(SelectMany(table, listCausesStatement(options), 0, fault).response).result
countCauses(table, options, fault) ==
    countCausesAnswer(SelectCount(table, countCausesStatement(options), 0, fault).response).result

-----------------------------------------------------------------------------
(* The inputs the calls are made with *)

Users == {"u1", "u2"}
CauseIds == {IdOf(n) : n \in 1..MaxCauses}
StoreFaults == {NULL, "08006"}

\* the number 5
Five == Finite(FALSE, <<1, 0, 1>>, 0)

\* CauseFormData as submitted: the goal as a number or as a string; the second
\* form also carries a status of its own
FormInputs ==
    { [title |-> "t1", description |-> "d1", category |-> "health",
       goal |-> Five],
      [title |-> "t2", description |-> "d2", category |-> "education",
       goal |-> Str(<<"7", ".", "5", "0">>), status |-> "approved"] }

\* Partial<CauseFormData> as submitted
PartialInputs ==
    { [title |-> "t3"],
      [category |-> "education", goal |-> Str(<<"1", "2">>)],
      [goal |-> Str(<<"a", "b", "c">>)],
      [status |-> "approved"] }

RejectionReasons == {UNDEFINED, "", "r1", "r2"}

CategoryOptions == {EmptyObject, [category |-> "all"], [category |-> "health"]}
StatusOptions == {EmptyObject} \cup {[status |-> s] : s \in {"pending", "approved", "rejected"}}
UserOptions == {EmptyObject} \cup {[userId |-> u] : u \in Users}
PageOptions == {EmptyObject, [limit |-> 1], [offset |-> 1], [limit |-> 1, offset |-> 1]}

\* every combination of category, status and userId, without pagination
CountFilterOptions ==
    {Spread(Spread(c, s), u) : c \in CategoryOptions, s \in StatusOptions, u \in UserOptions}
\* the same, and some of them paged
PagedFilters == CategoryOptions \cup {[userId |-> "u1"]}
CauseFilterOptions ==
    CountFilterOptions \cup {Spread(f, p) : f \in PagedFilters, p \in PageOptions}

\* the calls other clients make
OtherCalls ==
    { [op |-> "createCause", userId |-> "u2",
       causeData |-> [title |-> "t1", description |-> "d1", category |-> "health",
                      goal |-> Five]],
      [op |-> "updateCause", causeId |-> IdOf(1), userId |-> "u1",
       causeData |-> [title |-> "t3"]],
      [op |-> "updateCauseStatus", causeId |-> IdOf(1), status |-> "approved",
       rejectionReason |-> UNDEFINED] }

-----------------------------------------------------------------------------
(* The state machine *)

Other(c, st) == [call |-> c, statement |-> st]

NoCall == [op |-> "none"]
NoStatement == [verb |-> "none"]
NoResponse == [error |-> NoError]
Pending == [kind |-> "pending"]

Init ==
    /\ causes = <<>>
    /\ now = 0
    /\ call = NoCall
    /\ phase = "idle"
    /\ statement = NoStatement
    /\ response = NoResponse
    /\ result = Pending
    /\ trace = <<>>
    /\ others = {}

\* the call c is made: it runs up to its await on the store, reading the clock on
\* the way if it stamps updated_at
Send(c) ==
    /\ phase = "idle"
    /\ call' = c
    /\ statement' = Statement(c, now)
    /\ now' = IF ReadsClock(c) THEN now + 1 ELSE now
    /\ phase' = "sent"
    /\ UNCHANGED <<causes, response, result, trace, others>>

GetCause ==
    \E causeId \in CauseIds :
        Send([op |-> "getCause", causeId |-> causeId])

CreateCause ==
    \E userId \in Users, causeData \in FormInputs :
        /\ now < MaxClock
        /\ Len(causes) < MaxCauses
        /\ Send([op |-> "createCause", userId |-> userId, causeData |-> causeData])

UpdateCause ==
    \E causeId \in CauseIds, userId \in Users, causeData \in PartialInputs :
        /\ now < MaxClock
        /\ Send([op |-> "updateCause", causeId |-> causeId, userId |-> userId,
                 causeData |-> causeData])

ListCauses ==
    \E options \in CauseFilterOptions :
        Send([op |-> "listCauses", options |-> options])

CountCauses ==
    \E options \in CountFilterOptions :
        Send([op |-> "countCauses", options |-> options])

UpdateCauseStatus ==
    \E causeId \in CauseIds, status \in {"approved", "rejected"},
       rejectionReason \in RejectionReasons :
        /\ now < MaxClock
        /\ Send([op |-> "updateCauseStatus", causeId |-> causeId, status |-> status,
                 rejectionReason |-> rejectionReason])

\* the store applies the statement of the call and answers it
StoreAnswers ==
    /\ phase = "sent"
    /\ \E fault \in StoreFaults :
          \E out \in {Store(causes, statement, now, fault)} :
              /\ causes' = out.table
              /\ now' = out.clock
              /\ response' = out.response
              /\ trace' = Append(trace, StoreEv(statement.verb, out.applied))
    /\ phase' = "answered"
    /\ UNCHANGED <<call, statement, result, others>>

\* the call goes on after its await: it logs and throws, or signals and returns
Finish ==
    /\ phase = "answered"
    /\ \E out \in {Answer(call, response)} :
          /\ result' = out.result
          /\ trace' = trace \o out.events
    /\ phase' = "done"
    /\ UNCHANGED <<causes, now, call, statement, response, others>>

\* another client makes the call c: it runs up to its await on the store, reading
\* the clock on the way if it stamps updated_at.  (Between the end of the call
\* followed and the caller having its outcome no other step is taken: the steps of
\* the other calls that fall there are taken after it.)
OtherSends ==
    /\ phase # "done"
    /\ Cardinality(others) < MaxOthers
    /\ now < MaxClock
    /\ \E c \in OtherCalls :
          /\ Other(c, Statement(c, now)) \notin others
          /\ others' = others \cup {Other(c, Statement(c, now))}
          /\ now' = IF ReadsClock(c) THEN now + 1 ELSE now
    /\ UNCHANGED <<causes, call, phase, statement, response, result, trace>>

\* the store applies the statement of another client's call, built when that call
\* was made: before or after the call followed was made, before or after the store
\* answers the call followed
OtherWrites ==
    /\ phase # "done"
    /\ \E o \in others :
          /\ o.statement.verb = "insert" => Len(causes) < MaxCauses /\ now < MaxClock
          /\ \E out \in {Store(causes, o.statement, now, NULL)} :
                /\ causes' = out.table
                /\ now' = out.clock
                /\ trace' = IF phase # "idle" /\ out.applied
                             THEN Append(trace, OtherEv(o.call)) ELSE trace
          /\ others' = others \ {o}
    /\ UNCHANGED <<call, phase, statement, response, result>>

\* the caller has the outcome: the request is over, and the table stays as it is
Respond ==
    /\ phase = "done"
    /\ call' = NoCall
    /\ phase' = "idle"
    /\ statement' = NoStatement
    /\ response' = NoResponse
    /\ result' = Pending
    /\ trace' = <<>>
    /\ UNCHANGED <<causes, now, others>>

Next ==
    \/ GetCause
    \/ CreateCause
    \/ UpdateCause
    \/ ListCauses
    \/ CountCauses
    \/ UpdateCauseStatus
    \/ StoreAnswers
    \/ Finish
    \/ OtherSends
    \/ OtherWrites
    \/ Respond

Spec == Init /\ [][Next]_vars

-----------------------------------------------------------------------------
(* Vocabulary of the properties *)

Returned == result.kind = "return"
Threw == result.kind = "throw"

\* the paths signalled stale during the call, in order
Signals == SelectSeq(trace, LAMBDA e : e.ev = "revalidatePath")
SignalPaths == [i \in 1..Len(Signals) |-> Signals[i].path]

\* the rows of table with identifier id
RowsWithId(table, id) == {i \in 1..Len(table) : table[i].id = id}

\* a step in which the status of a cause that stays in the table changes
StatusChanges(i) == i <= Len(causes') /\ causes'[i].status # causes[i].status

\* the step in which the store answers the call followed, and the one in which
\* the call goes on with the answer
StoreStep == phase = "sent" /\ phase' = "answered"
FinishStep == phase = "answered" /\ phase' = "done"

\* the step in which the store applies the statement of another client's call, and
\* that call
OtherStep == \E o \in others : others' = others \ {o}
Applied == (CHOOSE o \in others : others' = others \ {o}).call

\* the table is as the statement of the call followed found or left it: no other
\* call has written since the store answered
TableAsAnswered ==
    /\ phase \in {"answered", "done"}
    /\ \A i \in 1..Len(trace) :
          trace[i].ev = "other" => \E j \in (i + 1)..Len(trace) : trace[j].ev = "store"

\* a write of another call landed after the store answered the call followed
WrittenSince == phase \in {"answered", "done"} /\ ~TableAsAnswered

-----------------------------------------------------------------------------
(* C1: over any sequence of calls the status of a cause changes only from    *)
(* pending to approved or from pending to rejected, and only by the         *)
(* statement of an updateCauseStatus call, of whichever client: updateCause *)
(* never changes it, and updateCauseStatus never moves an approved or       *)
(* rejected cause.                                                          *)
C1_StatusOnlyLeavesPendingByModeration ==
    [][\A i \in 1..Len(causes) :
          StatusChanges(i) =>
              LET writer == IF OtherStep THEN Applied ELSE call
              IN  /\ writer.op = "updateCauseStatus"
                  /\ causes[i].status = "pending"
                  /\ causes'[i].status \in {"approved", "rejected"}]_vars

-----------------------------------------------------------------------------
(* C2: updateCauseStatus(id, "rejected", r) with a non-empty r answers the   *)
(* record with rejection_reason = r, updateCauseStatus(id, "approved")      *)
(* answers it with no rejection reason, and so in every state a cause       *)
(* carries a rejection reason only when its status is rejected.             *)
C2_RejectionReasonOnlyWhenRejected ==
    /\ (call.op = "updateCauseStatus" /\ Returned) =>
          /\ (call.status = "rejected" /\ call.rejectionReason \notin {UNDEFINED, ""}) =>
                 result.value.rejection_reason = call.rejectionReason
          /\ call.status = "approved" => result.value.rejection_reason = NULL
    /\ \A i \in 1..Len(causes) :
          causes[i].rejection_reason # NULL => causes[i].status = "rejected"

-----------------------------------------------------------------------------
(* C3: the insert of a successful createCause adds exactly one cause, with  *)
(* status pending and owner userId, whatever status the form carries, and   *)
(* that is the record the call returns; a createCause call whose insert     *)
(* fails adds none and throws; no row is ever added with another status.    *)
C3_CreateAlwaysPending ==
    [][/\ (call.op = "createCause" /\ StoreStep) =>
              IF response'.error = NoError
              THEN /\ Len(causes') = Len(causes) + 1
                   /\ SubSeq(causes', 1, Len(causes)) = causes
                   /\ causes'[Len(causes')].status = "pending"
                   /\ causes'[Len(causes')].user_id = call.userId
                   /\ response'.data = causes'[Len(causes')]
              ELSE causes' = causes
       /\ (call.op = "createCause" /\ FinishStep) =>
              /\ causes' = causes
              /\ IF response.error = NoError
                 THEN /\ result' = Return(response.data)
                      /\ result'.value.status = "pending"
                      /\ result'.value.user_id = call.userId
                 ELSE result'.kind = "throw"
       /\ \A i \in (Len(causes) + 1)..Len(causes') : causes'[i].status = "pending"]_vars

\* a form carrying status approved was stored and returned as pending
C3_Witness ==
    /\ call.op = "createCause" /\ phase = "done" /\ Returned
    /\ "status" \in DOMAIN call.causeData /\ call.causeData.status = "approved"
    /\ result.value.status = "pending"
    /\ \E i \in RowsWithId(causes, result.value.id) : causes[i].status = "pending"

-----------------------------------------------------------------------------
(* C4: listCauses with neither a status nor a userId option, with or         *)
(* without category, limit and offset, returns only approved causes, each   *)
(* of them a row of the table its statement read.                           *)
C4_DefaultListingOnlyApproved ==
    (/\ call.op = "listCauses" /\ Returned
     /\ "status" \notin DOMAIN call.options
     /\ "userId" \notin DOMAIN call.options)
    => /\ \A i \in 1..Len(result.value) : result.value[i].status = "approved"
       /\ TableAsAnswered =>
              \A i \in 1..Len(result.value) :
                  \E j \in 1..Len(causes) : causes[j] = result.value[i]

\* a paged default listing returned an approved cause and held back another one
C4_Witness ==
    /\ call.op = "listCauses" /\ Returned
    /\ call.options = [category |-> "all", limit |-> 1]
    /\ Len(result.value) = 1
    /\ TableAsAnswered
    /\ \E i \in 1..Len(causes) : causes[i].status # "approved"

-----------------------------------------------------------------------------
(* C5: the statement of updateCause is applied when userId owns the cause   *)
(* causeId (and the store has no failure of its own), and fails when the    *)
(* cause is owned by another user or does not exist; a failed statement     *)
(* leaves every field of every cause, updated_at included, as it was, and   *)
(* the call throws the store's error exactly when its statement failed.     *)
C5_UpdateScopedToOwner ==
    [][/\ (call.op = "updateCause" /\ StoreStep) =>
              LET owned == \E i \in 1..Len(causes) :
                              /\ causes[i].id = call.causeId
                              /\ causes[i].user_id = call.userId
              IN  /\ response'.error \in {NoError, NoRowError} =>
                         (response'.error = NoError <=> owned)
                  /\ ~owned => response'.error # NoError
                  /\ response'.error # NoError => causes' = causes
       /\ (call.op = "updateCause" /\ FinishStep) =>
              /\ causes' = causes
              /\ result' = IF response.error = NoError
                           THEN Return(response.data) ELSE Throw(response.error)]_vars

\* an update of an existing cause by a user who does not own it was refused
C5_Witness ==
    /\ call.op = "updateCause" /\ Threw /\ response.error = NoRowError
    /\ \E i \in RowsWithId(causes, call.causeId) : causes[i].user_id # call.userId

-----------------------------------------------------------------------------
(* C6: for every combination of category, status and userId, without limit  *)
(* and offset, countCauses answers the number of causes listCauses returns  *)
(* on the same table.                                                       *)
C6_CountEqualsListLength ==
    /\ (call.op = "countCauses" /\ Returned /\ TableAsAnswered) =>
          result.value = Len(listCauses(causes, call.options, NULL).value)
    /\ (/\ call.op = "listCauses" /\ Returned /\ TableAsAnswered
        /\ "limit" \notin DOMAIN call.options
        /\ "offset" \notin DOMAIN call.options) =>
          Len(result.value) = countCauses(causes, call.options, NULL).value

\* a count under the default rule, category "all", that leaves a cause out
C6_Witness ==
    /\ call.op = "countCauses" /\ Returned /\ TableAsAnswered
    /\ call.options = [category |-> "all"]
    /\ result.value = 1
    /\ Len(causes) = 2

-----------------------------------------------------------------------------
(* C7: getCause answers null exactly when the store reports that no row has *)
(* the identifier (and then the table its statement read has none); every   *)
(* other store failure of getCause, and every store failure of the five     *)
(* other actions, is thrown as the store's own error, and nothing is thrown *)
(* or made null without one.                                                *)
C7_OnlyNotFoundIsRecovered ==
    phase = "done" =>
        /\ response.error = NoError <=> Returned
        /\ call.op = "getCause" =>
              /\ result.kind = "null" <=> response.error.code = "PGRST116"
              /\ result.kind \notin {"return", "null"} => result = Throw(response.error)
              /\ (result.kind = "null" /\ TableAsAnswered) =>
                     RowsWithId(causes, call.causeId) = {}
              /\ (Returned /\ TableAsAnswered) => RowsWithId(causes, call.causeId) # {}
        /\ call.op # "getCause" =>
              (response.error # NoError => result = Throw(response.error))

\* the store failed under getCause, for a cause that exists
C7_Witness ==
    /\ call.op = "getCause" /\ Threw /\ response.error = FaultError("08006")
    /\ RowsWithId(causes, call.causeId) # {}

-----------------------------------------------------------------------------
(* C8: right after a successful createCause, with no write in between,      *)
(* getCause on the identifier returned yields a record with the title,      *)
(* description, category and owner of the input and with the input's goal   *)
(* as a number, whether the goal was submitted as a number or as a numeric  *)
(* string.                                                                  *)

\* s is digits, with at most one decimal point among them
IsNumericString(s) ==
    /\ \E i \in 1..Len(s) : IsDigit(s[i])
    /\ \A i \in 1..Len(s) : IsDigit(s[i]) \/ s[i] = "."
    /\ Cardinality({i \in 1..Len(s) : s[i] = "."}) <= 1

\* the number a numeric string denotes: the digits before its point and those
\* after it
DecimalValue(s) ==
    LET dot == IF \E i \in 1..Len(s) : s[i] = "."
               THEN CHOOSE i \in 1..Len(s) : s[i] = "." ELSE Len(s) + 1
    IN  ToDouble(FALSE, [i \in 1..(dot - 1) |-> DigitVal(s[i])],
                 [i \in 1..(Len(s) - dot) |-> DigitVal(s[dot + i])])

C8_CreateThenGetRoundTrip ==
    (/\ call.op = "createCause" /\ Returned /\ TableAsAnswered
     /\ typeof(call.causeData.goal) = "string" => IsNumericString(call.causeData.goal.s))
    => LET got == getCause(causes, result.value.id, NULL)
       IN  /\ got.kind = "return"
           /\ got.value.id = result.value.id
           /\ got.value.title = call.causeData.title
           /\ got.value.description = call.causeData.description
           /\ got.value.category = call.causeData.category
           /\ got.value.user_id = call.userId
           /\ got.value.goal = IF typeof(call.causeData.goal) = "string"
                               THEN DecimalValue(call.causeData.goal.s)
                               ELSE call.causeData.goal

\* a goal submitted as a string with a fraction was stored
C8_Witness ==
    /\ call.op = "createCause" /\ Returned /\ TableAsAnswered
    /\ typeof(call.causeData.goal) = "string"
    /\ getCause(causes, result.value.id, NULL).value.goal = Num(<<7>>, <<5>>)

-----------------------------------------------------------------------------
(* C9: listCauses({userId: U}), with no status and no pagination, returns   *)
(* exactly the causes owned by U in the table its statement read, of every  *)
(* status, and no cause of another user.                                    *)
C9_OwnerListingEveryStatus ==
    (/\ call.op = "listCauses" /\ Returned
     /\ DOMAIN call.options = {"userId"})
    => /\ \A i \in 1..Len(result.value) : result.value[i].user_id = call.options.userId
       /\ \A i, j \in 1..Len(result.value) :
              result.value[i] = result.value[j] => i = j
       /\ TableAsAnswered =>
              {result.value[i] : i \in 1..Len(result.value)}
                  = {causes[i] : i \in {j \in 1..Len(causes) :
                                            causes[j].user_id = call.options.userId}}

\* an owner's listing with a cause that is not approved, beside another user's cause
C9_Witness ==
    /\ call.op = "listCauses" /\ Returned /\ TableAsAnswered
    /\ DOMAIN call.options = {"userId"}
    /\ \E i \in 1..Len(result.value) : result.value[i].status # "approved"
    /\ \E i \in 1..Len(causes) : causes[i].user_id # call.options.userId

-----------------------------------------------------------------------------
(* C10: a staleness signal is emitted only by a mutating call that          *)
(* succeeded, after its store mutation was applied: createCause signals     *)
(* /dashboard/causes, updateCause /dashboard/causes/<causeId> and           *)
(* /dashboard/causes, updateCauseStatus /dashboard/admin/causes; a failed   *)
(* mutation and every getCause, listCauses and countCauses signal nothing,  *)
(* and no call signals before the store has answered it.                    *)
C10_SignalsOnlyAfterAppliedMutation ==
    /\ \A i \in 1..Len(trace) :
          trace[i].ev = "revalidatePath" =>
              \E j \in 1..(i - 1) : trace[j].ev = "store" /\ trace[j].applied
    /\ SignalPaths =
          IF ~Returned THEN <<>>
          ELSE IF call.op = "createCause" THEN <<"/dashboard/causes">>
          ELSE IF call.op = "updateCause"
               THEN <<"/dashboard/causes/" \o call.causeId, "/dashboard/causes">>
          ELSE IF call.op = "updateCauseStatus" THEN <<"/dashboard/admin/causes">>
          ELSE <<>>

\* an owner's update went through and signalled the detail path, then the list
\* path, after another call had written behind it
C10_Witness ==
    /\ call.op = "updateCause" /\ Returned /\ WrittenSince
    /\ trace[1] = StoreEv("update", TRUE)
    /\ SignalPaths = <<"/dashboard/causes/c1", "/dashboard/causes">>

=============================================================================
